---- MODULE Spec2Model ----
(***************************************************************************)
(* A model of the dx2 reflection table (src/dx2/reflection.cxx) and of the *)
(* HDF5 helpers it is built on (src/dx2/h5/h5read_processed.cxx,           *)
(* src/dx2/h5/h5write.cxx).                                                *)
(*                                                                         *)
(* A string of the program is modelled as a sequence of tokens: the token  *)
(* "/" stands for the character '/', every other token for a run of        *)
(* characters without '/'.  A column buffer is a flat row-major sequence.  *)
(* Sequences are 1-based here and 0-based in the program: row i of the     *)
(* program is row i+1 of the model.                                        *)
(***************************************************************************)
EXTENDS Integers, Sequences, FiniteSets, TLC

\* table: the table the program makes its calls on; other: a second table it
\* holds (the source of a select whose result it went on with); file: the
\* HDF5 file at the path in use; last: the record of the last call; written:
\* the record of the last write
VARIABLES table, other, file, last, written

vars == <<table, other, file, last, written>>

(***************************************************************************)
(* Bounds of the model.                                                    *)
(***************************************************************************)
\* largest row count of a column that is added or stored in a file
MaxRows == 2
\* largest number of metadata pairs a table is grown to
MaxMeta == 3
\* width in bits of the experiment id counter (uint64_t in the program)
IdBits == 2
\* deepest nesting of traverse_hdf5 calls that is followed
MaxDepth == 3

IdModulus == 2 ^ IdBits
IdMax == IdModulus - 1

(***************************************************************************)
(* Generic helpers.                                                        *)
(***************************************************************************)
Range(s) == {s[i] : i \in DOMAIN s}

RECURSIVE Product(_)
Product(s) == IF s = <<>> THEN 1 ELSE Head(s) * Product(Tail(s))

RECURSIVE Concat(_)
Concat(ss) == IF ss = <<>> THEN <<>> ELSE Head(ss) \o Concat(Tail(ss))

\* all orderings of a finite set, as sequences
RECURSIVE Orderings(_)
Orderings(S) ==
  IF S = {} THEN {<<>>}
  ELSE UNION {{<<x>> \o o : o \in Orderings(S \ {x})} : x \in S}

\* the ascending sequence of the elements of a finite set of integers
RECURSIVE Ascending(_)
Ascending(S) ==
  IF S = {} THEN <<>>
  ELSE LET m == CHOOSE x \in S : \A y \in S : x <= y
       IN <<m>> \o Ascending(S \ {m})

(***************************************************************************)
(* Element types.  SupportedTypes is the closed set of the type registry;  *)
(* a column or a dataset may carry a tag outside it.                       *)
(***************************************************************************)
SupportedTypes == {"int", "double"}
ColumnTypes == SupportedTypes \cup {"unregistered"}
Values == {0, 1}

\* pseudo-random identifiers ersatz_uuid4 can return
Idents == {"uuid_a", "uuid_b"}

(***************************************************************************)
(* Typed column: name, element type tag, shape, flat row-major buffer.     *)
(***************************************************************************)
TypedColumn(name, type, shape, data) ==
  [name |-> name, type |-> type, shape |-> shape, data |-> data]

NoColumn == TypedColumn(<<>>, "none", <<0>>, <<>>)

\* number of elements of one row: the product of the trailing dimensions
RowStride(col) == Product(Tail(col.shape))

\* the elements of row r (0-based, r < shape[0])
RowOf(col, r) == SubSeq(col.data, r * RowStride(col) + 1, (r + 1) * RowStride(col))

\* span()(r, j): component j of row r, both 0-based
At(col, r, j) == col.data[r * RowStride(col) + j + 1]

RowsInRange(col, rows) == \A k \in DOMAIN rows : rows[k] < col.shape[1]

\* the correct copy of the chosen rows
CloneRows(col, rows, garbage) ==
  TypedColumn(col.name, col.type,
              <<Len(rows)>> \o Tail(col.shape),
              Concat([k \in DOMAIN rows |->
                        IF rows[k] < col.shape[1]
                        THEN RowOf(col, rows[k])
                        ELSE [j \in 1..RowStride(col) |-> garbage]]))

\* a clone_filtered that copies one element for each chosen row
clone_filtered_unit_stride(col, rows, garbage) ==
  TypedColumn(col.name, col.type, <<Len(rows)>> \o Tail(col.shape),
              [k \in DOMAIN rows |-> col.data[rows[k] + 1]])

\* TypedColumn<T>::clone_filtered: the chosen rows in the given order, each a
\* block of RowStride elements.  A row index >= shape[0] reads past the buffer:
\* what is read there is the value garbage.
clone_filtered(col, rows, garbage) == CloneRows(col, rows, garbage)

\* an as<T>() that casts without looking at the tag
as_unchecked(col, T) == [found |-> TRUE, col |-> col]

\* ColumnBase::as<T>(): the column when its tag is T, otherwise no value
as(col, T) == IF col.type = T THEN [found |-> TRUE, col |-> col]
              ELSE [found |-> FALSE, col |-> NoColumn]

(***************************************************************************)
(* Reflection table.                                                       *)
(***************************************************************************)
\* value of max_experiment_id in a table no constructor body has touched
InitialMaxExperimentId == 0

\* the members of a ReflectionTable before a constructor body runs
BlankTable ==
  [data |-> <<>>, experiment_ids |-> <<>>, identifiers |-> <<>>,
   max_experiment_id |-> InitialMaxExperimentId, h5_filepath |-> <<>>]

\* a generate_new_attributes that increments before it reads the counter
generate_preincrement(t, identifier) ==
  [id |-> (t.max_experiment_id + 1) % IdModulus, identifier |-> identifier,
   table |-> [t EXCEPT !.experiment_ids = Append(@, (t.max_experiment_id + 1) % IdModulus),
                       !.identifiers = Append(@, identifier),
                       !.max_experiment_id = (@ + 1) % IdModulus]]

\* ReflectionTable::generate_new_attributes: the pair returned and the table
\* afterwards.  The id is the counter before the increment (uint64_t).
generate_new_attributes(t, identifier) ==
  [id |-> t.max_experiment_id, identifier |-> identifier,
   table |-> [t EXCEPT !.experiment_ids = Append(@, t.max_experiment_id),
                       !.identifiers = Append(@, identifier),
                       !.max_experiment_id = (@ + 1) % IdModulus]]

\* ReflectionTable::ReflectionTable()
DefaultTable(identifier) == generate_new_attributes(BlankTable, identifier).table

get_column_names(t) == [k \in DOMAIN t.data |-> t.data[k].name]

\* a get_row_count that returns the largest row count among the columns
get_row_count_largest(t) ==
  IF t.data = <<>> THEN 0
  ELSE CHOOSE m \in {t.data[k].shape[1] : k \in DOMAIN t.data} :
         \A k \in DOMAIN t.data : t.data[k].shape[1] <= m

\* ReflectionTable::get_row_count
get_row_count(t) == IF t.data = <<>> THEN 0 ELSE t.data[1].shape[1]

\* ReflectionTable::get_column<T>(name)
get_column(t, name, T) ==
  LET hits == {k \in DOMAIN t.data : t.data[k].name = name}
  IN IF hits = {} THEN [found |-> FALSE, col |-> NoColumn]
     ELSE as(t.data[CHOOSE k \in hits : \A h \in hits : k <= h], T)

\* row predicates handed to select<T>
Predicates == {"always", "never", "first_positive", "last_positive"}
Pred(p, row) ==
  CASE p = "always" -> TRUE
    [] p = "never" -> FALSE
    [] p = "first_positive" -> row[1] > 0
    [] p = "last_positive" -> row[Len(row)] > 0

\* select<T>(column, pred): the row indices, ascending, for which pred holds
selected_rows_of(col, p) ==
  Ascending({r \in 0..(col.shape[1] - 1) : Pred(p, RowOf(col, r))})

\* a select(mask) that numbers the mask's entries from one
mask_rows_from_one(mask) == Ascending({i \in 1..Len(mask) : mask[i]})

\* select(mask): the indices i with mask[i] true, ascending
mask_rows(mask) == Ascending({i \in 0..(Len(mask) - 1) : mask[i + 1]})

\* whether select(rows) reads some column out of range
SelectOutOfRange(t, rows) ==
  \E k \in DOMAIN t.data : ~RowsInRange(t.data[k], rows)

\* a select that leaves the result the pair its constructor generated
SelectKeepGenerated(src, filtered) == filtered

\* a select that copies the experiment ids and leaves the identifiers
SelectCopyIdsOnly(src, filtered) ==
  [filtered EXCEPT !.experiment_ids = src.experiment_ids]

SelectCopyMetadata(src, filtered) ==
  [filtered EXCEPT !.experiment_ids = src.experiment_ids,
                   !.identifiers = src.identifiers]

\* ReflectionTable::select(const std::vector<size_t> &): the returned table.
\* filtered is default constructed (one generated pair, counter advanced),
\* then receives the path, the filtered columns and the metadata lists.
select(t, rows, identifier, garbage) ==
  SelectCopyMetadata(t,
    [DefaultTable(identifier) EXCEPT
       !.h5_filepath = t.h5_filepath,
       !.data = [k \in DOMAIN t.data |-> clone_filtered(t.data[k], rows, garbage)]])

(***************************************************************************)
(* The HDF5 file.  status: "ok" (H5Fopen succeeds), "missing" (no file at  *)
(* the path: H5Fopen fails, H5Fcreate succeeds) or "blocked" (neither      *)
(* succeeds).  groups: the group paths in the file, each a sequence of     *)
(* names, <<>> the root.  links: the paths of the links outside the        *)
(* reserved group that are not groups.  attrs and children belong to the   *)
(* reserved group.  A child is a dataset, a subgroup, or a link whose      *)
(* object info cannot be read; inner holds the links of a subgroup.        *)
(***************************************************************************)
DEFAULT_REFL_GROUP == <<"/", "dials", "/", "processing", "/", "group_0">>

NoAttr == [present |-> FALSE, value |-> <<>>]
Attr(v) == [present |-> TRUE, value |-> v]

Dataset(dtype, shape, data) ==
  [kind |-> "dataset", opens |-> TRUE, dtype |-> dtype, shape |-> shape,
   data |-> data, readok |-> TRUE, inner |-> <<>>]
Subgroup == [Dataset("none", <<>>, <<>>) EXCEPT !.kind = "group"]
NoInfoLink == [Dataset("none", <<>>, <<>>) EXCEPT !.kind = "noinfo"]

NoChildren == [n \in {} |-> Subgroup]

EmptyFile(status) ==
  [status |-> status, groups |-> IF status = "ok" THEN {<<>>} ELSE {},
   links |-> {},
   ids |-> NoAttr, identifiers |-> NoAttr, children |-> NoChildren]

\* position of the first token of s that is (slash = TRUE) or is not "/"; 0 if none
FirstPos(s, slash) ==
  LET hits == {i \in DOMAIN s : (s[i] = "/") = slash}
  IN IF hits = {} THEN 0 ELSE CHOOSE i \in hits : \A h \in hits : i <= h

LastSlash(s) ==
  LET hits == {i \in DOMAIN s : s[i] = "/"}
  IN IF hits = {} THEN 0 ELSE CHOOSE i \in hits : \A h \in hits : i >= h

\* get_dataset_name: what follows the last '/', the whole path if there is none
get_dataset_name(path) ==
  IF LastSlash(path) = 0 THEN path
  ELSE SubSeq(path, LastSlash(path) + 1, Len(path))

\* the group names a path string resolves through (HDF5 path resolution)
RECURSIVE PathGroups(_)
PathGroups(path) ==
  LET start == FirstPos(path, FALSE)
      cleaned == SubSeq(path, start, Len(path))
      pos == FirstPos(cleaned, TRUE)
  IN IF start = 0 THEN <<>>
     ELSE IF pos = 0 THEN <<cleaned>>
     ELSE <<SubSeq(cleaned, 1, pos - 1)>> \o PathGroups(SubSeq(cleaned, pos + 1, Len(cleaned)))

\* H5Gopen2(file, path) succeeds
GroupOpens(f, path) == f.status = "ok" /\ PathGroups(path) \in f.groups

\* a traverse_or_create_groups that creates every component without trying
\* to open it first
RECURSIVE traverse_create_groups(_, _, _, _)
traverse_create_groups(groups, links, parent, path) ==
  LET start_pos == FirstPos(path, FALSE)
      cleaned_path == SubSeq(path, start_pos, Len(path))
      pos == FirstPos(cleaned_path, TRUE)
      group_name == IF pos = 0 THEN cleaned_path ELSE SubSeq(cleaned_path, 1, pos - 1)
      remaining_path == IF pos = 0 THEN <<>>
                        ELSE SubSeq(cleaned_path, pos + 1, Len(cleaned_path))
      next_group == Append(parent, group_name)
      created == groups \cup {next_group}
  IN IF start_pos = 0 THEN [threw |-> FALSE, groups |-> groups, group |-> parent]
     ELSE IF next_group \in groups \cup links
     THEN [threw |-> TRUE, groups |-> groups, group |-> parent]
     ELSE IF remaining_path = <<>>
     THEN [threw |-> FALSE, groups |-> created, group |-> next_group]
     ELSE traverse_create_groups(created, links, next_group, remaining_path)

\* traverse_or_create_groups(parent, path): the groups of the file afterwards
\* and the group returned.  Each component is opened, or created when the
\* open fails; the creation fails, and the call throws, when the name is
\* taken by a link that is not a group (links).
RECURSIVE traverse_or_create_groups(_, _, _, _)
traverse_or_create_groups(groups, links, parent, path) ==
  LET start_pos == FirstPos(path, FALSE)
      cleaned_path == SubSeq(path, start_pos, Len(path))
      pos == FirstPos(cleaned_path, TRUE)
      group_name == IF pos = 0 THEN cleaned_path ELSE SubSeq(cleaned_path, 1, pos - 1)
      remaining_path == IF pos = 0 THEN <<>>
                        ELSE SubSeq(cleaned_path, pos + 1, Len(cleaned_path))
      next_group == Append(parent, group_name)
      created == groups \cup {next_group}
  IN IF start_pos = 0 THEN [threw |-> FALSE, groups |-> groups, group |-> parent]
     ELSE IF next_group \notin groups /\ next_group \in links
     THEN [threw |-> TRUE, groups |-> groups, group |-> parent]
     ELSE IF remaining_path = <<>>
     THEN [threw |-> FALSE, groups |-> created, group |-> next_group]
     ELSE traverse_or_create_groups(created, links, next_group, remaining_path)

\* a callback that also lists the datasets inside a subgroup
scan_group_callback_descending(datasets, group_name, name, child) ==
  IF child.kind = "noinfo" THEN datasets
  ELSE IF child.kind = "dataset" THEN Append(datasets, group_name \o <<"/">> \o name)
  ELSE IF DOMAIN child.inner = {} THEN datasets
  ELSE Append(datasets, group_name \o <<"/">> \o name \o <<"/">>
                          \o (CHOOSE m \in DOMAIN child.inner : TRUE))

\* scan_group_callback: one link of the group, appended when it is a dataset
scan_group_callback(datasets, group_name, name, child) ==
  IF child.kind = "noinfo" THEN datasets
  ELSE IF child.kind = "dataset" THEN Append(datasets, group_name \o <<"/">> \o name)
  ELSE datasets

RECURSIVE ScanLinks(_, _, _, _)
ScanLinks(datasets, group_name, order, children) ==
  IF order = <<>> THEN datasets
  ELSE ScanLinks(scan_group_callback(datasets, group_name, Head(order), children[Head(order)]),
                 group_name, Tail(order), children)

\* a get_datasets_in_group that treats a missing group as an error
get_datasets_in_group_strict(f, group_name, order) ==
  IF f.status # "ok" \/ ~GroupOpens(f, group_name)
  THEN [threw |-> TRUE, datasets |-> <<>>]
  ELSE [threw |-> FALSE, datasets |-> ScanLinks(<<>>, group_name, order, f.children)]

\* get_datasets_in_group(filename, group_name); order is the order in which
\* H5Literate2 visits the links (H5_ITER_NATIVE)
get_datasets_in_group(f, group_name, order) ==
  IF f.status # "ok" THEN [threw |-> TRUE, datasets |-> <<>>]
  ELSE IF ~GroupOpens(f, group_name) THEN [threw |-> FALSE, datasets |-> <<>>]
  ELSE [threw |-> FALSE, datasets |-> ScanLinks(<<>>, group_name, order, f.children)]

\* read_experiment_metadata: each list is replaced when its attribute exists
read_experiment_metadata(f, t) ==
  [t EXCEPT !.experiment_ids = IF f.ids.present THEN f.ids.value ELSE @,
            !.identifiers = IF f.identifiers.present THEN f.identifiers.value ELSE @]

\* one pass of the dataset loop of the constructor: TRUE when the dataset
\* becomes a column (it opens, its type dispatches, the read succeeds)
DatasetLoads(d) ==
  /\ d.opens
  /\ d.dtype \in SupportedTypes
  /\ Len(d.shape) > 0
  /\ d.readok

LoadDataset(columns, f, dataset) ==
  LET dataset_name == get_dataset_name(dataset)
      d == f.children[dataset_name]
  IN IF DatasetLoads(d)
     THEN Append(columns, TypedColumn(dataset_name, d.dtype, d.shape, d.data))
     ELSE columns

\* a dataset loop that stops at the first dataset that fails
RECURSIVE LoadDatasetsAbort(_, _, _)
LoadDatasetsAbort(columns, f, datasets) ==
  IF datasets = <<>> THEN columns
  ELSE IF ~DatasetLoads(f.children[get_dataset_name(Head(datasets))]) THEN columns
  ELSE LoadDatasetsAbort(LoadDataset(columns, f, Head(datasets)), f, Tail(datasets))

RECURSIVE LoadDatasets(_, _, _)
LoadDatasets(columns, f, datasets) ==
  IF datasets = <<>> THEN columns
  ELSE LoadDatasets(LoadDataset(columns, f, Head(datasets)), f, Tail(datasets))

\* the members after the metadata step of the file constructor
LoadMetadata(f, t) ==
  IF GroupOpens(f, DEFAULT_REFL_GROUP) THEN read_experiment_metadata(f, t) ELSE t

\* a constructor that returns an empty table for a file that does not open
LoadTableLenient(f, order) ==
  [threw |-> FALSE, datasets |-> <<>>,
   table |-> [BlankTable EXCEPT !.h5_filepath = <<"file">>]]

\* a file constructor that runs the body of ReflectionTable() first, so the
\* table starts from a generated pair
LoadTableSeeded(f, order) ==
  LET listed == get_datasets_in_group(f, DEFAULT_REFL_GROUP, order)
      opened == [DefaultTable("uuid_a") EXCEPT !.h5_filepath = <<"file">>]
      withmeta == LoadMetadata(f, opened)
  IN IF listed.threw \/ f.status # "ok"
     THEN [threw |-> TRUE, datasets |-> <<>>, table |-> BlankTable]
     ELSE [threw |-> FALSE, datasets |-> listed.datasets,
           table |-> [withmeta EXCEPT !.data = LoadDatasets(<<>>, f, listed.datasets)]]

\* ReflectionTable::ReflectionTable(const std::string &h5_filepath)
LoadTable(f, order) ==
  LET listed == get_datasets_in_group(f, DEFAULT_REFL_GROUP, order)
      opened == [BlankTable EXCEPT !.h5_filepath = <<"file">>]
      withmeta == LoadMetadata(f, opened)
  IN IF listed.threw \/ f.status # "ok"
     THEN [threw |-> TRUE, datasets |-> <<>>, table |-> BlankTable]
     ELSE [threw |-> FALSE, datasets |-> listed.datasets,
           table |-> [withmeta EXCEPT !.data = LoadDatasets(<<>>, f, listed.datasets)]]

(***************************************************************************)
(* Writing.                                                                *)
(***************************************************************************)
\* a write_experiment_metadata that throws only when both lists are empty
write_experiment_metadata_lax(f, experiment_ids, identifiers) ==
  IF experiment_ids = <<>> /\ identifiers = <<>>
  THEN [threw |-> TRUE, file |-> f]
  ELSE [threw |-> FALSE,
        file |-> [f EXCEPT
                    !.ids = IF @.present THEN @ ELSE Attr(experiment_ids),
                    !.identifiers = IF @.present THEN @ ELSE Attr(identifiers)]]

\* write_experiment_metadata: throws on an empty list; H5Acreate2 creates an
\* attribute only when the group has none of that name (its failure is
\* silenced and the H5Awrite on the invalid handle writes nothing)
write_experiment_metadata(f, experiment_ids, identifiers) ==
  IF experiment_ids = <<>> \/ identifiers = <<>>
  THEN [threw |-> TRUE, file |-> f]
  ELSE [threw |-> FALSE,
        file |-> [f EXCEPT
                    !.ids = IF @.present THEN @ ELSE Attr(experiment_ids),
                    !.identifiers = IF @.present THEN @ ELSE Attr(identifiers)]]

\* a write that drops every dimension of extent 1 after the first
write_shape_squeezed(shape) ==
  IF shape = <<>> THEN shape
  ELSE <<shape[1]>> \o SelectSeq(Tail(shape), LAMBDA d : d # 1)

\* a write that keeps every shape as it is
write_shape_kept(shape) == shape

\* the shape a column is written with: (N,1) becomes (N)
write_shape(shape) ==
  IF Len(shape) = 2 /\ shape[2] = 1 THEN <<shape[1]>> ELSE shape

\* write_raw_data_to_h5_group<T>(group, name, data, shape)
write_raw_data_to_h5_group(f, name, type, data, shape) ==
  [f EXCEPT !.children =
     [n \in DOMAIN @ \cup {name} |->
        IF n = name THEN Dataset(type, shape, data) ELSE @[n]]]

\* write_raw_data_to_h5_group raises: the name is taken in the group by a
\* link that is not a dataset
WriteRaises(f, name) ==
  name \in DOMAIN f.children /\ f.children[name].kind # "dataset"

\* one pass of the column loop of write: dispatch_column_type throws for a
\* tag outside the registry, write_raw_data_to_h5_group may raise; both are
\* caught and the column is skipped
write_col(f, col) ==
  IF col.type \in SupportedTypes /\ ~WriteRaises(f, col.name)
  THEN write_raw_data_to_h5_group(f, col.name, col.type, col.data, write_shape(col.shape))
  ELSE f

\* a column loop that ends at the first column it cannot write
RECURSIVE WriteColumnsAbort(_, _)
WriteColumnsAbort(f, columns) ==
  IF columns = <<>> THEN f
  ELSE IF Head(columns).type \notin SupportedTypes \/ WriteRaises(f, Head(columns).name)
  THEN f
  ELSE WriteColumnsAbort(write_col(f, Head(columns)), Tail(columns))

RECURSIVE WriteColumns(_, _)
WriteColumns(f, columns) ==
  IF columns = <<>> THEN f
  ELSE WriteColumns(write_col(f, Head(columns)), Tail(columns))

\* the file after the open-or-create step and the group step of write
WriteOpen(f, group) ==
  LET opened == IF f.status = "ok" THEN f ELSE EmptyFile("ok")
  IN [opened EXCEPT
        !.groups = traverse_or_create_groups(@, opened.links, <<>>, group).groups]

\* whether the group step of write throws
WriteGroupThrows(f, group) ==
  traverse_or_create_groups(WriteOpen(f, <<>>).groups, WriteOpen(f, <<>>).links,
                            <<>>, group).threw

\* ReflectionTable::write(filename, group), group being the reserved group
Write(t, f, group) ==
  LET meta == write_experiment_metadata(WriteOpen(f, group), t.experiment_ids, t.identifiers)
  IN IF f.status = "blocked" THEN [threw |-> TRUE, file |-> f]
     ELSE IF WriteGroupThrows(f, group) THEN [threw |-> TRUE, file |-> WriteOpen(f, group)]
     ELSE IF meta.threw THEN [threw |-> TRUE, file |-> meta.file]
     ELSE [threw |-> FALSE, file |-> WriteColumns(meta.file, t.data)]

(***************************************************************************)
(* The record of the last call: its name, its arguments, the table it was  *)
(* called on, and what it returned.                                        *)
(***************************************************************************)
NoCall ==
  [op |-> "none", threw |-> FALSE, crashed |-> FALSE, src |-> BlankTable,
   res |-> BlankTable, found |-> FALSE, col |-> NoColumn, name |-> <<>>,
   type |-> "none", pred |-> "none", rows |-> <<>>, id |-> 0,
   identifier |-> "none", datasets |-> <<>>, order |-> <<>>,
   before |-> EmptyFile("missing"), issued |-> {}, shelved |-> {},
   mask |-> <<>>, path |-> <<>>, parent |-> <<>>, group |-> <<>>]

\* the record of a call made on the held table and the current file; issued
\* is the set of ids generate_new_attributes has returned on the held table
\* since it was constructed, shelved the same for the second table
Call(op) ==
  [NoCall EXCEPT !.op = op, !.src = table, !.before = file,
                 !.issued = last.issued, !.shelved = last.shelved]

\* the record before any call on a table made by ReflectionTable(), whose
\* body has called generate_new_attributes once
Constructed == [NoCall EXCEPT !.issued = {InitialMaxExperimentId}]

NotWritten == [done |-> FALSE, fresh |-> FALSE, table |-> BlankTable]

(***************************************************************************)
(* Inputs of the calls.                                                    *)
(***************************************************************************)
Names == {<<"id">>, <<"xyz">>}

\* buffers of n elements handed to add_column
DataPool(n) == {[i \in 1..n |-> 1], [i \in 1..n |-> (i \div 2) % 2]}

ColumnWidths == {1, 2}

\* id lists handed to set_experiment_ids, identifier lists to set_identifiers
IdLists == {<<IdMax>>, <<1, 0>>}
IdentifierLists == {<<>>, <<"uuid_b">>}

\* boolean masks of a given length
Masks(n) == [1..n -> BOOLEAN]

\* index lists handed to select: every row index below n, in any order
IndexLists(n) == {<<>>} \cup {<<i>> : i \in 0..(n - 1)}
                 \cup {<<i, j>> : i \in 0..(n - 1), j \in 0..(n - 1)}

\* the lists of at most n row indices below n
RowLists(n) == UNION {[1..k -> 0..(n - 1)] : k \in 0..n}

\* what an out-of-range read can produce: a crash, or some value
Garbage == Values
ReadOutcomes == {"crash"} \cup {"reads"}

(***************************************************************************)
(* Calls on the table the program holds.                                   *)
(***************************************************************************)
\* an add_column that stores the shape as (cols, rows)
add_column_transposed(t, name, type, rows, cols, data) ==
  IF t.data # <<>> /\ rows # get_row_count(t)
  THEN [threw |-> TRUE, table |-> t]
  ELSE [threw |-> FALSE,
        table |-> [t EXCEPT !.data = Append(@, TypedColumn(name, type, <<cols, rows>>, data))]]

\* an add_column that does not compare row counts
add_column_unchecked(t, name, type, rows, cols, data) ==
  [threw |-> FALSE,
   table |-> [t EXCEPT !.data = Append(@, TypedColumn(name, type, <<rows, cols>>, data))]]

\* add_column<T>(name, rows, cols, data): a row count that differs from the
\* table's is refused; otherwise the column (rows, cols) is appended
add_column(t, name, type, rows, cols, data) ==
  IF t.data # <<>> /\ rows # get_row_count(t)
  THEN [threw |-> TRUE, table |-> t]
  ELSE [threw |-> FALSE,
        table |-> [t EXCEPT !.data = Append(@, TypedColumn(name, type, <<rows, cols>>, data))]]

AddColumn(names, types, widths) ==
  \E name \in names, type \in types, rows \in 0..MaxRows, cols \in widths :
    \E data \in DataPool(rows * cols) :
      LET r == add_column(table, name, type, rows, cols, data)
      IN /\ name \notin Range(get_column_names(table))
         /\ table' = r.table
         /\ last' = [Call("add_column") EXCEPT !.threw = r.threw, !.name = name,
                                               !.type = type, !.rows = <<rows, cols>>,
                                               !.col = TypedColumn(name, type, <<rows, cols>>, data)]
         /\ UNCHANGED <<other, file, written>>

GetColumn ==
  \E name \in Names, type \in ColumnTypes :
    LET r == get_column(table, name, type)
    IN /\ last' = [Call("get_column") EXCEPT !.name = name, !.type = type,
                                             !.found = r.found, !.col = r.col]
       /\ UNCHANGED <<table, other, file, written>>

\* the outcome of select(rows) on the held table: the returned table, or a
\* crash when a column is read out of range
SelectOutcome(call, rows) ==
  \E identifier \in Idents, outcome \in ReadOutcomes, garbage \in Garbage :
    /\ outcome = "crash" => SelectOutOfRange(table, rows)
    /\ ~SelectOutOfRange(table, rows) => garbage = 0
    /\ last' = IF outcome = "crash"
               THEN [call EXCEPT !.rows = rows, !.crashed = TRUE]
               ELSE [call EXCEPT !.rows = rows,
                                 !.res = select(table, rows, identifier, garbage)]
    /\ UNCHANGED <<table, other, file, written>>

\* a select<T> that looks the column up by name alone
select_pred_untyped(t, name, type, p) ==
  LET hits == {k \in DOMAIN t.data : t.data[k].name = name}
  IN IF hits = {} THEN [threw |-> TRUE, rows |-> <<>>]
     ELSE [threw |-> FALSE, rows |-> selected_rows_of(t.data[CHOOSE k \in hits : TRUE], p)]

\* select<T>(column_name, pred): throws when get_column<T> finds no column,
\* otherwise hands the rows for which pred holds to select(rows)
select_pred(t, name, type, p) ==
  LET c == get_column(t, name, type)
  IN IF ~c.found THEN [threw |-> TRUE, rows |-> <<>>]
     ELSE [threw |-> FALSE, rows |-> selected_rows_of(c.col, p)]

SelectPred ==
  \E name \in Names, type \in ColumnTypes, p \in Predicates :
    LET s == select_pred(table, name, type, p)
        call == [Call("select_pred") EXCEPT !.name = name, !.type = type, !.pred = p]
    IN IF s.threw
       THEN /\ last' = [call EXCEPT !.threw = TRUE]
            /\ UNCHANGED <<table, other, file, written>>
       ELSE SelectOutcome(call, s.rows)

\* select(mask), the mask as long as the table has rows
SelectMask ==
  \E mask \in Masks(get_row_count(table)) :
    SelectOutcome([Call("select_mask") EXCEPT !.found = TRUE, !.mask = mask],
                  mask_rows(mask))

\* select(rows)
SelectRows ==
  \E rows \in IndexLists(get_row_count(table)) :
    SelectOutcome(Call("select_rows"), rows)

\* the caller goes on with the table select returned; the source stays
\* alive as the second table
KeepSelection ==
  /\ last.op \in {"select_pred", "select_mask", "select_rows"}
  /\ ~last.threw /\ ~last.crashed
  /\ table' = last.res
  /\ other' = table
  /\ last' = [Call("keep") EXCEPT !.res = last.res, !.issued = Constructed.issued,
                                  !.shelved = last.issued]
  /\ UNCHANGED <<file, written>>

\* the program turns to the second table it holds and makes its next calls
\* on that one
SwapTables ==
  /\ other # BlankTable
  /\ table' = other
  /\ other' = table
  /\ last' = [Call("swap") EXCEPT !.issued = last.shelved, !.shelved = last.issued]
  /\ UNCHANGED <<file, written>>

\* a generate_new_attributes() whose counter is one per process: the call
\* advances the counter of the second table as well
GenerateFromShared(idents) ==
  \E identifier \in idents :
    LET g == generate_new_attributes(table, identifier)
    IN /\ Len(table.experiment_ids) < MaxMeta
       /\ Len(table.identifiers) < MaxMeta
       /\ table' = g.table
       /\ other' = [other EXCEPT !.max_experiment_id = g.table.max_experiment_id]
       /\ last' = [Call("generate_new_attributes") EXCEPT
                     !.id = g.id, !.identifier = g.identifier,
                     !.issued = @ \cup {g.id}]
       /\ UNCHANGED <<file, written>>

\* a generate_new_attributes() call whose identifier is drawn from idents
GenerateFrom(idents) ==
  \E identifier \in idents :
    LET g == generate_new_attributes(table, identifier)
    IN /\ Len(table.experiment_ids) < MaxMeta
       /\ Len(table.identifiers) < MaxMeta
       /\ table' = g.table
       /\ last' = [Call("generate_new_attributes") EXCEPT
                     !.id = g.id, !.identifier = g.identifier,
                     !.issued = @ \cup {g.id}]
       /\ UNCHANGED <<other, file, written>>

GenerateNewAttributes == GenerateFrom(Idents)

\* ReflectionTable::set_experiment_ids: the list is replaced and the counter
\* becomes its largest element.  For an empty list std::max_element returns
\* end(), and reading through it yields the value garbage.
set_experiment_ids(t, ids, garbage) ==
  [t EXCEPT !.experiment_ids = ids,
            !.max_experiment_id =
               IF ids = <<>> THEN garbage
               ELSE CHOOSE m \in Range(ids) : \A x \in Range(ids) : x <= m]

SetExperimentIds ==
  \E ids \in IdLists \cup {<<>>}, outcome \in ReadOutcomes, garbage \in 0..IdMax :
    /\ outcome = "crash" => ids = <<>>
    /\ ids # <<>> => garbage = 0
    /\ table' = IF outcome = "crash" THEN table ELSE set_experiment_ids(table, ids, garbage)
    /\ last' = [Call("set_experiment_ids") EXCEPT !.rows = ids,
                                                  !.crashed = (outcome = "crash")]
    /\ UNCHANGED <<other, file, written>>

\* ReflectionTable::set_identifiers
set_identifiers(t, ids) == [t EXCEPT !.identifiers = ids]

SetIdentifiers(lists) ==
  \E ids \in lists :
    /\ table' = set_identifiers(table, ids)
    /\ last' = Call("set_identifiers")
    /\ UNCHANGED <<other, file, written>>

(***************************************************************************)
(* Calls that touch the file.                                              *)
(***************************************************************************)
\* the program constructs a table from the file and holds it afterwards
LoadFile ==
  \E order \in Orderings(DOMAIN file.children) :
    LET r == LoadTable(file, order)
    IN /\ table' = IF r.threw THEN table ELSE r.table
       /\ last' = [Call("load") EXCEPT !.threw = r.threw, !.res = r.table,
                                       !.datasets = r.datasets, !.order = order,
                                       !.issued = IF r.threw THEN @ ELSE {}]
       /\ UNCHANGED <<other, file, written>>

\* the program writes the held table to the reserved group of the file
WriteFile ==
  LET r == Write(table, file, DEFAULT_REFL_GROUP)
  IN /\ file' = r.file
     /\ written' = [done |-> ~r.threw,
                    fresh |-> ~GroupOpens(file, DEFAULT_REFL_GROUP),
                    table |-> table]
     /\ last' = [Call("write") EXCEPT !.threw = r.threw]
     /\ UNCHANGED <<table, other>>

(***************************************************************************)
(* Spec: a table created empty, the columns added to it and the calls that *)
(* read and filter its columns.                                            *)
(***************************************************************************)
Init ==
  /\ \E identifier \in Idents : table = DefaultTable(identifier)
  /\ file = EmptyFile("missing")
  /\ last = Constructed
  /\ written = NotWritten
  /\ other = BlankTable

Next ==
  \/ AddColumn(Names, SupportedTypes, ColumnWidths)
  \/ GetColumn
  \/ SelectPred
  \/ SelectMask
  \/ SelectRows

Spec == Init /\ [][Next]_vars

(***************************************************************************)
(* SpecMeta: the metadata calls on a table created empty.  The identifier *)
(* of a generated pair plays no part in the counter, so one is drawn.      *)
(***************************************************************************)
NextMeta ==
  \/ GenerateFrom({"uuid_a"})
  \/ SetExperimentIds
  \/ SetIdentifiers(IdentifierLists)

SpecMeta == Init /\ [][NextMeta]_vars

(***************************************************************************)
(* SpecSelectMeta: a table created empty receives metadata pairs and one   *)
(* small column, is filtered, and the caller goes on with the table that   *)
(* select returned.                                                        *)
(***************************************************************************)
NextSelectMeta ==
  \/ GenerateNewAttributes
  \/ SetIdentifiers(IdentifierLists)
  \/ AddColumn({<<"id">>}, {"int"}, {1})
  \/ SelectMask
  \/ KeepSelection

SpecSelectMeta == Init /\ [][NextSelectMeta]_vars

(***************************************************************************)
(* SpecLoad: a table constructed from a file someone else wrote, and the   *)
(* calls that read and filter its columns.                                 *)
(***************************************************************************)
Ramp(n) == [i \in 1..n |-> (i \div 2) % 2]

\* the groups of a file that holds the reserved group
ReservedGroups == traverse_or_create_groups({<<>>}, {}, <<>>, DEFAULT_REFL_GROUP).groups

\* the links a foreign file may hold in the reserved group
ForeignChildren ==
  {Dataset("int", <<MaxRows>>, Ramp(MaxRows)),
   Dataset("double", <<MaxRows, 2>>, Ramp(2 * MaxRows)),
   Dataset("double", <<MaxRows, 1>>, Ramp(MaxRows)),
   Dataset("int", <<1>>, <<1>>),
   Dataset("string", <<MaxRows>>, Ramp(MaxRows)),
   [Dataset("int", <<MaxRows>>, Ramp(MaxRows)) EXCEPT !.opens = FALSE],
   [Dataset("int", <<MaxRows>>, Ramp(MaxRows)) EXCEPT !.readok = FALSE],
   Dataset("int", <<>>, <<1>>),
   Subgroup,
   NoInfoLink}

ForeignAttrs ==
  {<<NoAttr, NoAttr>>,
   <<Attr(<<0>>), Attr(<<"uuid_a">>)>>,
   <<Attr(<<1, 0>>), Attr(<<"uuid_b", "uuid_a">>)>>}

ForeignFiles ==
  {EmptyFile("missing"), EmptyFile("blocked"), EmptyFile("ok")}
  \cup {[status |-> "ok", groups |-> ReservedGroups, links |-> {}, ids |-> a[1],
         identifiers |-> a[2], children |-> c] :
          a \in ForeignAttrs,
          c \in UNION {[ns -> ForeignChildren] : ns \in SUBSET Names}}

\* the table held before the load is ReflectionTable({}, {})
InitLoad ==
  /\ table = BlankTable
  /\ file \in ForeignFiles
  /\ last = NoCall
  /\ written = NotWritten
  /\ other = BlankTable

NextLoad ==
  \/ LoadFile
  \/ GetColumn
  \/ SelectPred
  \/ SelectMask

SpecLoad == InitLoad /\ [][NextLoad]_vars

(***************************************************************************)
(* SpecRoundTrip: a table is built, written to the reserved group of a     *)
(* destination and a table is constructed from that destination.  After   *)
(* a write the table may receive a further metadata pair and be written    *)
(* again, so that a write can meet a group an earlier write left behind.   *)
(***************************************************************************)
\* the destinations: no file at the path, a path that can neither be opened
\* nor created, a file without the reserved group
Destinations == {EmptyFile("missing"), EmptyFile("blocked"), EmptyFile("ok")}

InitRoundTrip ==
  /\ \E identifier \in Idents : table = DefaultTable(identifier)
  /\ file \in Destinations
  /\ last = Constructed
  /\ written = NotWritten
  /\ other = BlankTable

\* nothing has been written or loaded yet
Building == written = NotWritten /\ last.op # "load"

BuildColumn == Building /\ AddColumn(Names, ColumnTypes, ColumnWidths)

\* the table receives one more metadata pair right after it was written
GenerateAfterWrite == last.op = "write" /\ ~last.threw /\ GenerateNewAttributes

WriteBeforeLoad == last.op # "load" /\ WriteFile

LoadAfterWrite == last.op = "write" /\ LoadFile

NextRoundTrip ==
  \/ BuildColumn
  \/ GenerateAfterWrite
  \/ WriteBeforeLoad
  \/ LoadAfterWrite

SpecRoundTrip == InitRoundTrip /\ [][NextRoundTrip]_vars

(***************************************************************************)
(* SpecWriteMeta: the metadata lists of a table created empty are set in   *)
(* bulk, the table is written, and it may then receive further pairs and   *)
(* be written again to the same destination.                               *)
(***************************************************************************)
SetIdsBeforeWrite == written = NotWritten /\ SetExperimentIds

SetIdentifiersBeforeWrite == written = NotWritten /\ SetIdentifiers(IdentifierLists)

GenerateBetweenWrites == last.op = "write" /\ GenerateFrom({"uuid_a"})

NextWriteMeta ==
  \/ SetIdsBeforeWrite
  \/ SetIdentifiersBeforeWrite
  \/ GenerateBetweenWrites
  \/ WriteFile

SpecWriteMeta == InitRoundTrip /\ [][NextWriteMeta]_vars

(***************************************************************************)
(* SpecCopy: a table is constructed from a source file, the program turns  *)
(* to an output path where no file exists, adds a column and writes the    *)
(* table there.                                                            *)
(***************************************************************************)
\* datasets of rank 1, 2 and 3 a source file may hold in the reserved group
SourceChildren ==
  {Dataset("int", <<MaxRows>>, Ramp(MaxRows)),
   Dataset("double", <<MaxRows, 1>>, Ramp(MaxRows)),
   Dataset("double", <<MaxRows, 2>>, Ramp(2 * MaxRows)),
   Dataset("int", <<MaxRows, 1, 1>>, Ramp(MaxRows)),
   Dataset("int", <<MaxRows, 1, 2>>, Ramp(2 * MaxRows))}

SourceFiles ==
  {[status |-> "ok", groups |-> ReservedGroups, links |-> {}, ids |-> Attr(<<1, 0>>),
    identifiers |-> Attr(<<"uuid_b", "uuid_a">>), children |-> c] :
      c \in UNION {[ns -> SourceChildren] : ns \in SUBSET Names}}

InitCopy ==
  /\ table = BlankTable
  /\ file \in SourceFiles
  /\ last = NoCall
  /\ written = NotWritten
  /\ other = BlankTable

LoadSource == last.op = "none" /\ LoadFile

\* from here on the file is the one at the output path, which was removed
TurnToOutput ==
  /\ last.op = "load"
  /\ file' = EmptyFile("missing")
  /\ last' = Call("output")
  /\ UNCHANGED <<table, other, written>>

AddOutputColumn ==
  /\ last.op \in {"output", "add_column"}
  /\ AddColumn({<<"num_pixels">>}, ColumnTypes, ColumnWidths)

WriteOutput == last.op \in {"output", "add_column"} /\ WriteFile

NextCopy ==
  \/ LoadSource
  \/ TurnToOutput
  \/ AddOutputColumn
  \/ WriteOutput

SpecCopy == InitCopy /\ [][NextCopy]_vars

(***************************************************************************)
(* SpecTwoTables: a table created empty receives a column, is filtered,    *)
(* and the program then makes metadata and column calls either on the     *)
(* table select returned or on the source.                                 *)
(***************************************************************************)
\* no selection has been kept yet
OneTable == other = BlankTable

FirstColumn == OneTable /\ AddColumn({<<"id">>}, {"int"}, {1})

FirstSelect == OneTable /\ SelectMask

LaterColumn == ~OneTable /\ AddColumn({<<"xyz">>}, {"int"}, {1})

LaterGenerate == ~OneTable /\ GenerateFrom({"uuid_b"})

\* a bulk set of a list that still is the one select copied
LaterSetIds ==
  ~OneTable /\ table.experiment_ids = other.experiment_ids /\ SetExperimentIds

LaterSetIdentifiers ==
  ~OneTable /\ table.identifiers = other.identifiers /\ SetIdentifiers(IdentifierLists)

KeepFirstSelection == OneTable /\ KeepSelection

\* right after the select the program turns back to the source
TurnToSource == last.op = "keep" /\ SwapTables

NextTwoTables ==
  \/ FirstColumn
  \/ FirstSelect
  \/ KeepFirstSelection
  \/ TurnToSource
  \/ LaterColumn
  \/ LaterGenerate
  \/ LaterSetIds
  \/ LaterSetIdentifiers

SpecTwoTables == Init /\ [][NextTwoTables]_vars

(***************************************************************************)
(* SpecLifecycle: the program creates tables, empty or from a file, and    *)
(* holds the one it created last.                                          *)
(***************************************************************************)
\* ReflectionTable(): the program holds a new empty table
CreateTable ==
  \E identifier \in Idents :
    /\ table' = DefaultTable(identifier)
    /\ last' = [Call("create") EXCEPT !.identifier = identifier,
                                      !.res = DefaultTable(identifier),
                                      !.issued = Constructed.issued]
    /\ UNCHANGED <<other, file, written>>

InitLifecycle ==
  /\ table = BlankTable
  /\ file \in ForeignFiles
  /\ last = NoCall
  /\ written = NotWritten
  /\ other = BlankTable

GenerateOnCreated == last.op # "load" /\ table # BlankTable /\ GenerateFrom({"uuid_a"})

NextLifecycle ==
  \/ CreateTable
  \/ GenerateOnCreated
  \/ LoadFile

SpecLifecycle == InitLifecycle /\ [][NextLifecycle]_vars

(***************************************************************************)
(* SpecClone: clone_filtered applied to one column of rank 1, 2 or 3, with *)
(* every list of rows of the column, repeated and out of order included.   *)
(***************************************************************************)
CloneShapes == UNION {{<<n>>, <<n, 2>>, <<n, 1, 2>>} : n \in 0..MaxRows}

CloneColumns ==
  {TypedColumn(<<"xyz">>, "double", shape, data) :
     shape \in CloneShapes, data \in UNION {[1..m -> Values] : m \in 0..(2 * MaxRows)}}

InitClone ==
  /\ \E col \in CloneColumns :
       /\ Len(col.data) = Product(col.shape)
       /\ table = [BlankTable EXCEPT !.data = <<col>>]
  /\ file = EmptyFile("missing")
  /\ last = NoCall
  /\ written = NotWritten
  /\ other = BlankTable

\* col->clone_filtered(selected_rows) on the column of the held table
CloneFiltered ==
  \E rows \in RowLists(get_row_count(table)) :
    /\ last' = [Call("clone_filtered") EXCEPT
                  !.rows = rows, !.col = clone_filtered(table.data[1], rows, 0)]
    /\ UNCHANGED <<table, other, file, written>>

NextClone == CloneFiltered

SpecClone == InitClone /\ [][NextClone]_vars

(***************************************************************************)
(* SpecGroups: the destination step of write.  A table created empty is    *)
(* written to a destination, and traverse_or_create_groups is called on a  *)
(* group of the file with a path, then once more with the same arguments.  *)
(***************************************************************************)
GroupPaths ==
  {<<>>, <<"/">>, <<"/", "/">>,
   <<"dials">>, <<"/", "dials">>, <<"dials", "/">>, <<"dials", "/", "/">>,
   <<"group_0">>,
   <<"dials", "/", "processing">>,
   <<"/", "/", "dials", "/", "/", "processing", "/">>,
   <<"processing", "/", "group_0">>,
   DEFAULT_REFL_GROUP}

\* destinations: no file, a file that cannot be opened or created, an empty
\* file, files that hold some of the groups, and files in which a dataset
\* has the name of a component
GroupFiles ==
  {EmptyFile("missing"), EmptyFile("blocked"), EmptyFile("ok"),
   [EmptyFile("ok") EXCEPT !.groups = {<<>>, << <<"dials">> >>}],
   [EmptyFile("ok") EXCEPT !.groups = ReservedGroups],
   [EmptyFile("ok") EXCEPT !.links = {<< <<"dials">> >>}],
   [EmptyFile("ok") EXCEPT !.groups = {<<>>, << <<"dials">> >>},
                           !.links = {<< <<"dials">>, <<"processing">> >>}]}

InitGroups ==
  /\ \E identifier \in Idents : table = DefaultTable(identifier)
  /\ file \in GroupFiles
  /\ last = Constructed
  /\ written = NotWritten
  /\ other = BlankTable

\* traverse_or_create_groups(parent, path) on an open group of the file
Traverse(op, parent, path) ==
  LET r == traverse_or_create_groups(file.groups, file.links, parent, path)
  IN /\ file.status = "ok"
     /\ parent \in file.groups
     /\ file' = [file EXCEPT !.groups = r.groups]
     /\ last' = [Call(op) EXCEPT !.threw = r.threw, !.path = path,
                                 !.parent = parent, !.group = r.group]
     /\ UNCHANGED <<table, other, written>>

FirstTraverse ==
  /\ last.op \in {"none", "write"}
  /\ \E parent \in file.groups, path \in GroupPaths : Traverse("traverse", parent, path)

SecondTraverse ==
  /\ last.op = "traverse"
  /\ ~last.threw
  /\ Traverse("traverse_again", last.parent, last.path)

WriteBeforeTraverse == last.op \in {"none", "write"} /\ WriteFile

NextGroups ==
  \/ WriteBeforeTraverse
  \/ FirstTraverse
  \/ SecondTraverse

SpecGroups == InitGroups /\ [][NextGroups]_vars

(***************************************************************************)
(* SpecSkip: a table of up to three columns, some of a type outside the    *)
(* registry, is written to a destination in which a column name may be     *)
(* taken by a subgroup.                                                    *)
(***************************************************************************)
SkipNames == Names \cup {<<"num_pixels">>}

SkipFiles ==
  {EmptyFile("missing"), EmptyFile("blocked"),
   [EmptyFile("ok") EXCEPT !.groups = ReservedGroups,
                           !.children = [n \in {<<"xyz">>} |-> Subgroup]]}

InitSkip ==
  /\ table = DefaultTable("uuid_a")
  /\ file \in SkipFiles
  /\ last = Constructed
  /\ written = NotWritten
  /\ other = BlankTable

AddBeforeWrite ==
  /\ written = NotWritten
  /\ AddColumn(SkipNames, {"int", "unregistered"}, {1})

WriteColumnsOnce == written = NotWritten /\ WriteFile

NextSkip ==
  \/ AddBeforeWrite
  \/ WriteColumnsOnce

SpecSkip == InitSkip /\ [][NextSkip]_vars

(***************************************************************************)
(* SpecScan: get_datasets_in_group on files whose reserved group holds     *)
(* datasets, subgroups with and without datasets of their own, and links   *)
(* whose object info cannot be read.                                       *)
(***************************************************************************)
ScanChildren ==
  {Dataset("int", <<1>>, <<1>>),
   Subgroup,
   [Subgroup EXCEPT !.inner = [n \in {<<"id">>} |-> Dataset("int", <<1>>, <<1>>)]],
   NoInfoLink}

ScanFiles ==
  {EmptyFile("missing"), EmptyFile("blocked"), EmptyFile("ok")}
  \cup {[EmptyFile("ok") EXCEPT !.groups = ReservedGroups, !.children = c] :
          c \in UNION {[ns -> ScanChildren] : ns \in SUBSET SkipNames}}

InitScan ==
  /\ table = BlankTable
  /\ file \in ScanFiles
  /\ last = NoCall
  /\ written = NotWritten
  /\ other = BlankTable

\* get_datasets_in_group(filename, DEFAULT_REFL_GROUP)
ListDatasets ==
  \E order \in Orderings(DOMAIN file.children) :
    LET r == get_datasets_in_group(file, DEFAULT_REFL_GROUP, order)
    IN /\ last' = [Call("get_datasets_in_group") EXCEPT
                     !.threw = r.threw, !.datasets = r.datasets, !.order = order]
       /\ UNCHANGED <<table, other, file, written>>

NextScan == ListDatasets

SpecScan == InitScan /\ [][NextScan]_vars

(***************************************************************************)
(* SpecTraverse: get_datasets_in_group_recursive, one group_iterator call  *)
(* at a time.  The file is a set of objects: 0, the group the traversal    *)
(* starts from, 1, a second group, 2, a dataset, 3, an object whose info   *)
(* cannot be read.  A group holds links, each a name and the object it     *)
(* leads to, in the order H5Literate2 visits them; a link may lead to the  *)
(* group that holds it or to the group above.  The call record holds the   *)
(* stack of traverse_hdf5 calls, the datasets collected, visited_groups    *)
(* and the groups entered so far.                                          *)
(***************************************************************************)
LinkNames == {<<"id">>, <<"xyz">>}
Objects == 0..3
ObjectKind(o) == CASE o \in {0, 1} -> "group" [] o = 2 -> "dataset" [] OTHER -> "noinfo"

Link(name, target) == [name |-> name, target |-> target]

\* the link lists a group may hold: no name twice
LinkLists ==
  {<<>>}
  \cup {<<Link(n, o)>> : n \in LinkNames, o \in Objects}
  \cup UNION {{<<Link(n, o), Link(m, p)>> :
                  m \in LinkNames \ {n}, o \in Objects, p \in Objects} :
                n \in LinkNames}

TraverseFiles ==
  {[status |-> s, links |-> l] : s \in {"ok"}, l \in [{0, 1} -> LinkLists]}
  \cup {[status |-> "missing", links |-> [g \in {0, 1} |-> <<>>]]}

Frame(group, path) == [group |-> group, path |-> path, rest |-> file.links[group]]

InitTraverse ==
  /\ table = BlankTable
  /\ file \in TraverseFiles
  /\ last = NoCall
  /\ written = NotWritten
  /\ other = BlankTable

\* get_datasets_in_group_recursive up to its call of traverse_hdf5: a file
\* or a group that does not open returns the empty list
StartTraversal ==
  /\ last.op = "none"
  /\ last' = [op |-> "get_datasets_in_group_recursive",
              stack |-> IF file.status = "ok" THEN <<Frame(0, DEFAULT_REFL_GROUP)>> ELSE <<>>,
              datasets |-> <<>>, visited |-> {},
              entered |-> IF file.status = "ok" THEN <<0>> ELSE <<>>,
              done |-> file.status # "ok"]
  /\ UNCHANGED <<table, other, file, written>>

Traversing == last.op = "get_datasets_in_group_recursive" /\ ~last.done

\* group_iterator on the next link of the innermost traverse_hdf5 call
GroupIterator ==
  /\ Traversing
  /\ last.stack # <<>>
  /\ last.stack[Len(last.stack)].rest # <<>>
  /\ LET depth == Len(last.stack)
         top == last.stack[depth]
         link == Head(top.rest)
         full_path == top.path \o <<"/">> \o link.name
         kind == ObjectKind(link.target)
         advanced == [last.stack EXCEPT ![depth].rest = Tail(@)]
     IN IF full_path \in last.visited
        THEN last' = [last EXCEPT !.stack = advanced]
        ELSE IF kind = "noinfo"
        THEN last' = [last EXCEPT !.stack = [@ EXCEPT ![depth].rest = <<>>]]
        ELSE IF kind = "dataset"
        THEN last' = [last EXCEPT !.stack = advanced,
                                  !.datasets = Append(@, full_path)]
        ELSE /\ depth < MaxDepth
             /\ last' = [last EXCEPT
                           !.stack = Append(advanced, Frame(link.target, full_path)),
                           !.visited = @ \cup {full_path},
                           !.entered = Append(@, link.target)]
  /\ UNCHANGED <<table, other, file, written>>

\* H5Literate2 has passed the last link of the group: traverse_hdf5 returns
LeaveGroup ==
  /\ Traversing
  /\ last.stack # <<>>
  /\ last.stack[Len(last.stack)].rest = <<>>
  /\ last' = [last EXCEPT !.stack = SubSeq(@, 1, Len(@) - 1),
                          !.done = Len(last.stack) = 1]
  /\ UNCHANGED <<table, other, file, written>>

NextTraverse ==
  \/ StartTraversal
  \/ GroupIterator
  \/ LeaveGroup

SpecTraverse == InitTraverse /\ [][NextTraverse]_vars

(***************************************************************************)
(* SpecGiven: tables that did not start empty.  The table is built from   *)
(* given lists, may be replaced by one loaded from a file, receives        *)
(* generated pairs and is filtered, the caller going on with the result.   *)
(***************************************************************************)
\* the lists handed to ReflectionTable(ids, identifiers): no id twice
GivenLists ==
  {<< <<>>, <<>> >>, << <<0>>, <<"uuid_a">> >>, << <<1>>, <<"uuid_a">> >>,
   << <<1, 0>>, <<"uuid_b", "uuid_a">> >>}

GivenFiles ==
  {[EmptyFile("ok") EXCEPT !.groups = ReservedGroups, !.ids = Attr(l[1]),
                           !.identifiers = Attr(l[2]), !.children = c] :
     l \in GivenLists \ {<< <<>>, <<>> >>},
     c \in {NoChildren, [n \in {<<"id">>} |-> Dataset("int", <<MaxRows>>, Ramp(MaxRows))]}}

\* ReflectionTable(experiment_ids, identifiers)
InitGiven ==
  /\ \E l \in GivenLists :
       table = [BlankTable EXCEPT !.experiment_ids = l[1], !.identifiers = l[2]]
  /\ file \in GivenFiles
  /\ last = NoCall
  /\ written = NotWritten
  /\ other = BlankTable

LoadGiven == last.op = "none" /\ LoadFile

GenerateOnGiven == GenerateFrom({"uuid_a"})

SelectGiven == last.op \notin {"select_mask", "keep"} /\ SelectMask

NextGiven ==
  \/ LoadGiven
  \/ GenerateOnGiven
  \/ SelectGiven
  \/ KeepSelection

SpecGiven == InitGiven /\ [][NextGiven]_vars

(***************************************************************************)
(* SpecPairs: a table created empty and changed by generate_new_attributes *)
(* and add_column alone, filtered, the caller going on with the result.    *)
(***************************************************************************)
GeneratePair == GenerateFrom({"uuid_b"})

AddPairColumn == AddColumn(Names, {"int"}, {1})

NextPairs ==
  \/ GeneratePair
  \/ AddPairColumn
  \/ SelectMask
  \/ KeepSelection

SpecPairs == Init /\ [][NextPairs]_vars

(***************************************************************************)
(* SpecPanel: a detector panel is built from a JSON object, serialised,    *)
(* and built again from what was serialised.  In this specification file   *)
(* is the JSON object the program holds and the call record holds the      *)
(* panel built last and the panel it was serialised from.  geometry stands *)
(* for the axes, the origin, the sizes, the offset and the trusted range,  *)
(* which both directions copy.                                             *)
(***************************************************************************)
StrategyTypes ==
  {"SimplePxMmStrategy", "ParallaxCorrectedPxMmStrategy", "OtherPxMmStrategy"}

PanelDocuments ==
  {[name |-> <<"module">>, type |-> ty, geometry |-> g, thickness |-> th, mu |-> m,
    mask |-> <<>>, identifier |-> <<>>, gain |-> ga, pedestal |-> pe,
    px_mm_strategy |-> [type |-> st]] :
     ty \in {"SENSOR_PAD", "SENSOR_UNKNOWN"}, g \in Values, th \in Values,
     m \in Values, ga \in Values, pe \in Values, st \in StrategyTypes}

\* the members of a Panel before a constructor body runs
NoPanel ==
  [name_ |-> <<>>, type_ |-> "none", geometry_ |-> 0, thickness_ |-> 0, mu_ |-> 0,
   gain_ |-> 0, pedestal_ |-> 0, pixel_to_mm_strategy_ |-> "SimplePxMmStrategy",
   parallax_correction_ |-> FALSE]

\* Panel::Panel(json panel_data)
Panel(panel_data) ==
  [NoPanel EXCEPT
     !.name_ = panel_data.name, !.type_ = panel_data.type,
     !.geometry_ = panel_data.geometry, !.thickness_ = panel_data.thickness,
     !.mu_ = panel_data.mu, !.gain_ = panel_data.gain,
     !.pedestal_ = panel_data.pedestal,
     !.pixel_to_mm_strategy_ = panel_data.px_mm_strategy.type,
     !.parallax_correction_ =
        IF panel_data.px_mm_strategy.type # "SimplePxMmStrategy" THEN TRUE ELSE @]

\* Panel::to_json
to_json(p) ==
  [name |-> p.name_, type |-> p.type_, geometry |-> p.geometry_,
   thickness |-> p.thickness_, mu |-> p.mu_, mask |-> <<>>, identifier |-> <<>>,
   gain |-> p.gain_, pedestal |-> p.pedestal_,
   px_mm_strategy |-> [type |-> "ParallaxCorrectedPxMmStrategy"]]

PanelCall(op, panel, source) == [op |-> op, panel |-> panel, source |-> source]

InitPanel ==
  /\ table = BlankTable
  /\ file \in PanelDocuments
  /\ last = PanelCall("none", NoPanel, NoPanel)
  /\ written = NotWritten
  /\ other = BlankTable

BuildPanel ==
  /\ last.op = "none"
  /\ last' = PanelCall("Panel", Panel(file), NoPanel)
  /\ UNCHANGED <<table, other, file, written>>

SerialisePanel ==
  /\ last.op \in {"Panel", "rebuild"}
  /\ file' = to_json(last.panel)
  /\ last' = PanelCall("to_json", last.panel, last.source)
  /\ UNCHANGED <<table, other, written>>

RebuildPanel ==
  /\ last.op = "to_json"
  /\ last' = PanelCall("rebuild", Panel(file), last.panel)
  /\ UNCHANGED <<table, other, file, written>>

NextPanel ==
  \/ BuildPanel
  \/ SerialisePanel
  \/ RebuildPanel

SpecPanel == InitPanel /\ [][NextPanel]_vars

(***************************************************************************)
(* Claims about loading (SpecLoad).                                        *)
(***************************************************************************)
Loaded == last.op = "load"

\* C7: loading a file that opens but holds no reserved group does not throw
\* and yields a table with no columns, no experiment ids and no identifiers.
C7_MissingGroupLoadsEmpty ==
  (Loaded /\ file.status = "ok" /\ ~GroupOpens(file, DEFAULT_REFL_GROUP))
    => /\ ~last.threw
       /\ last.res.data = <<>>
       /\ last.res.experiment_ids = <<>>
       /\ last.res.identifiers = <<>>
       /\ table = last.res

C7_Witness ==
  Loaded /\ file.status = "ok" /\ ~GroupOpens(file, DEFAULT_REFL_GROUP) /\ ~last.threw

\* C8: constructing a table from a file that cannot be opened throws, and no
\* table is produced: the program holds what it held before.
C8_UnopenableFileThrows ==
  (Loaded /\ file.status # "ok")
    => /\ last.threw
       /\ last.res = BlankTable
       /\ table = last.src

C8_Witness == Loaded /\ file.status = "missing" /\ last.threw

\* the names, in the order visited, of the links that become columns
LoadableNames(f, order) ==
  SelectSeq(order, LAMBDA n : f.children[n].kind = "dataset" /\ DatasetLoads(f.children[n]))

\* C9: a dataset that fails (it does not open, its type is unsupported, its
\* read fails) is skipped alone: the load does not throw and the table holds
\* exactly the datasets that succeeded, named by their leaf, in the order
\* of the enumeration, with the shape and the values of the file.
C9_BadDatasetSkippedAlone ==
  (Loaded /\ file.status = "ok")
    => LET good == LoadableNames(file, last.order)
       IN /\ ~last.threw
          /\ Len(last.res.data) = Len(good)
          /\ \A k \in DOMAIN good :
               /\ last.res.data[k].name = good[k]
               /\ last.res.data[k].type = file.children[good[k]].dtype
               /\ last.res.data[k].shape = file.children[good[k]].shape
               /\ last.res.data[k].data = file.children[good[k]].data

\* a load in which the first dataset visited fails and the second succeeds
C9_Witness ==
  /\ Loaded /\ ~last.threw
  /\ Len(last.datasets) = 2
  /\ ~DatasetLoads(file.children[last.order[1]])
  /\ DatasetLoads(file.children[last.order[2]])
  /\ Len(last.res.data) = 1

(***************************************************************************)
(* Claims about column access and selection errors (Spec).                 *)
(***************************************************************************)
\* the columns of t called name
Named(t, name) == {k \in DOMAIN t.data : t.data[k].name = name}

\* C5: select<T>(column_name, p) throws and returns no table when the table
\* has no column of that name, and when the column of that name does not
\* hold elements of type T; no row list is built from the predicate.
C5_SelectRejectsMissingOrMistyped ==
  (/\ last.op = "select_pred"
   /\ \A k \in Named(last.src, last.name) : last.src.data[k].type # last.type)
    => /\ last.threw
       /\ ~last.crashed
       /\ last.res = BlankTable
       /\ last.rows = <<>>
       /\ table = last.src

\* select<T> on a column that exists with another element type
C5_Witness ==
  /\ last.op = "select_pred"
  /\ Named(last.src, last.name) # {}
  /\ \A k \in Named(last.src, last.name) : last.src.data[k].type # last.type
  /\ last.threw

\* C6: get_column<T>(name) on a column whose stored type is not T returns no
\* value and does not throw; a column is returned only when its stored type
\* is T, and it is then the stored column.
C6_GetColumnWrongTypeIsNull ==
  last.op = "get_column"
    => /\ ~last.threw /\ ~last.crashed
       /\ (\A k \in Named(last.src, last.name) : last.src.data[k].type # last.type)
            => (~last.found /\ last.col = NoColumn)
       /\ last.found
            => /\ last.col.type = last.type
               /\ \E k \in Named(last.src, last.name) : last.col = last.src.data[k]

\* get_column<T> on a column that exists with another element type
C6_Witness ==
  /\ last.op = "get_column"
  /\ Named(last.src, last.name) # {}
  /\ \A k \in Named(last.src, last.name) : last.src.data[k].type # last.type
  /\ ~last.found

(***************************************************************************)
(* Claims about metadata (SpecSelectMeta for select, SpecMeta otherwise).  *)
(***************************************************************************)
\* a select call has returned a table
Selected ==
  /\ last.op \in {"select_pred", "select_mask", "select_rows"}
  /\ ~last.threw /\ ~last.crashed

\* C4: the table select returns has the experiment_ids and the identifiers
\* of the source, element for element and in order (so none that was newly
\* generated), and the source table is what it was before the call.
C4_SelectKeepsMetadata ==
  Selected
    => /\ last.res.experiment_ids = last.src.experiment_ids
       /\ last.res.identifiers = last.src.identifiers
       /\ table = last.src

\* a select on a table with a column and two metadata pairs
C4_Witness ==
  /\ Selected
  /\ last.src.data # <<>>
  /\ Len(last.src.experiment_ids) = 2
  /\ Len(last.src.identifiers) = 2

Generated == "generate_new_attributes"

SelectedByPred == last.op = "select_pred" /\ ~last.threw

\* the column select<T> evaluated the predicate on
PredColumn == get_column(last.src, last.name, last.type).col

\* the rows of the predicate column for which the predicate holds, ascending
MatchingRows ==
  Ascending({r \in 0..(PredColumn.shape[1] - 1) : Pred(last.pred, RowOf(PredColumn, r))})

\* C2: select<T>(col, p) returns a table whose rows are exactly the rows of
\* the source for which p holds on col, in ascending row order, in every
\* column: each column of the result has as many rows as there are matching
\* rows (0 when none matches), and its r-th row is the source column's row at
\* the r-th matching index.
C2_SelectExactRows ==
  SelectedByPred =>
    /\ ~last.crashed
    /\ Len(last.res.data) = Len(last.src.data)
    /\ \A k \in DOMAIN last.src.data :
         /\ last.res.data[k].name = last.src.data[k].name
         /\ last.res.data[k].shape = <<Len(MatchingRows)>> \o Tail(last.src.data[k].shape)
         /\ \A r \in DOMAIN MatchingRows :
              /\ MatchingRows[r] < last.src.data[k].shape[1]
              /\ RowOf(last.res.data[k], r - 1) = RowOf(last.src.data[k], MatchingRows[r])

\* C3: select with a predicate that holds for every row of the predicate
\* column returns the source's contents: the same column names and, for every
\* column, the same shape and the same values in the same order.
C3_SelectAllIsIdentity ==
  (SelectedByPred /\ Len(MatchingRows) = PredColumn.shape[1]) =>
    /\ ~last.crashed
    /\ last.res.data = last.src.data

(***************************************************************************)
(* Claims about writing a table and loading it back (SpecRoundTrip).       *)
(***************************************************************************)
\* a table was loaded from a destination the table written.table had just
\* been written to without error
LoadedBack == Loaded /\ written.done

\* the column of table t written or loaded under the given name
ColumnNamed(t, name) == t.data[CHOOSE k \in DOMAIN t.data : t.data[k].name = name]

ColumnNameSet(t) == Range(get_column_names(t))

\* C1 as stated: for a table with at least one metadata pair, writing it and
\* loading from the destination yields the same column names, for every
\* column the same shape and the same element values, and the same
\* experiment_ids and identifiers.
C1_RoundTripAsStated ==
  (LoadedBack /\ written.table.experiment_ids # <<>> /\ written.table.identifiers # <<>>) =>
    /\ ~last.threw
    /\ ColumnNameSet(table) = ColumnNameSet(written.table)
    /\ \A name \in ColumnNameSet(written.table) \cap ColumnNameSet(table) :
         /\ ColumnNamed(table, name).shape = ColumnNamed(written.table, name).shape
         /\ ColumnNamed(table, name).data = ColumnNamed(written.table, name).data
    /\ table.experiment_ids = written.table.experiment_ids
    /\ table.identifiers = written.table.identifiers

\* every column of t has a type the dispatcher knows
AllTypesSupported(t) == \A k \in DOMAIN t.data : t.data[k].type \in SupportedTypes

\* C1 (amended): for a table with at least one metadata pair whose columns
\* all have a type the dispatcher supports, written to a destination whose
\* reserved group did not exist before the write, loading from the
\* destination does not throw and yields the same set of column names, the
\* same element values, the same experiment_ids and identifiers, and for every
\* column the same shape, except that a column of shape (N, 1) comes back
\* with shape (N).
C1_RoundTripNormalised ==
  (LoadedBack /\ written.fresh /\ AllTypesSupported(written.table)
     /\ written.table.experiment_ids # <<>> /\ written.table.identifiers # <<>>) =>
    /\ ~last.threw
    /\ ColumnNameSet(table) = ColumnNameSet(written.table)
    /\ \A name \in ColumnNameSet(written.table) \cap ColumnNameSet(table) :
         LET back == ColumnNamed(table, name)
             orig == ColumnNamed(written.table, name)
         IN /\ back.data = orig.data
            /\ back.shape = IF Len(orig.shape) = 2 /\ orig.shape[2] = 1
                            THEN <<orig.shape[1]>>
                            ELSE orig.shape
    /\ table.experiment_ids = written.table.experiment_ids
    /\ table.identifiers = written.table.identifiers

\* a table with a column of shape (N, 1) and one of shape (N, 2), N > 0, was
\* written to a new destination and loaded back
C1_Witness ==
  /\ LoadedBack /\ written.fresh /\ AllTypesSupported(written.table)
  /\ ~last.threw
  /\ \E k, j \in DOMAIN written.table.data :
       /\ written.table.data[k].shape = <<MaxRows, 1>>
       /\ written.table.data[j].shape = <<MaxRows, 2>>
  /\ Len(table.data) = 2

(***************************************************************************)
(* Claims about the id counter (SpecMeta).                                 *)
(***************************************************************************)
\* the step is a call the claim speaks of; set_experiment_ids with an empty
\* list, whose behaviour is undefined, is left out
CounterStep ==
  /\ last'.op \in {Generated, "set_experiment_ids", "set_identifiers"}
  /\ ~(last'.op = "set_experiment_ids" /\ last'.rows = <<>>)

\* C11: over any sequence of generate_new_attributes, set_experiment_ids and
\* set_identifiers calls on one table, max_experiment_id never decreases, no
\* id is returned twice by generate_new_attributes, and the two bulk setters
\* leave the counter as it was.
C11_CounterNeverDecreases ==
  [][CounterStep
       => /\ table'.max_experiment_id >= table.max_experiment_id
          /\ (last'.op = Generated => last'.id \notin last.issued)
          /\ (last'.op # Generated
                => table'.max_experiment_id = table.max_experiment_id)]_vars

(***************************************************************************)
(* Claims about writing (SpecWriteMeta).                                   *)
(***************************************************************************)
WriteCalled == last.op = "write"

\* C12: write throws whenever the table's experiment_ids is empty or its
\* identifiers is empty, and then stores neither attribute; so a write that
\* stored metadata was a write of a table with at least one id and one
\* identifier.
C12_WriteThrowsOnEmptyMetadata ==
  (WriteCalled /\ (last.src.experiment_ids = <<>> \/ last.src.identifiers = <<>>)) =>
    /\ last.threw
    /\ file.ids = last.before.ids
    /\ file.identifiers = last.before.identifiers

\* a write of a table with ids but no identifiers, to a path where the file
\* could be created
C12_Witness ==
  /\ WriteCalled
  /\ last.src.experiment_ids # <<>>
  /\ last.src.identifiers = <<>>
  /\ last.before.status = "missing"
  /\ last.threw

(***************************************************************************)
(* Claims about the datasets write stores (SpecCopy).                      *)
(***************************************************************************)
\* a write that returned without throwing
WriteDone == WriteCalled /\ ~last.threw

\* C13: write stores a column of shape (N, 1) with the shape (N) and a column
\* of any other shape (rank 1, rank 2 with another second dimension, rank
\* above 2) with its own shape; the stored buffer is the column's buffer in
\* both cases.
C13_WriteNormalisesShape ==
  WriteDone =>
    \A k \in DOMAIN last.src.data :
      LET col == last.src.data[k]
      IN col.type \in SupportedTypes =>
           /\ col.name \in DOMAIN file.children
           /\ file.children[col.name].data = col.data
           /\ file.children[col.name].shape =
                IF Len(col.shape) = 2 /\ col.shape[2] = 1
                THEN <<col.shape[1]>>
                ELSE col.shape

\* a write of a table holding a column of rank 3 with second dimension 1 and
\* an added column of shape (N, 1)
C13_Witness ==
  /\ WriteDone
  /\ \E k, j \in DOMAIN last.src.data :
       /\ last.src.data[k].shape = <<MaxRows, 1, 1>>
       /\ last.src.data[j].shape = <<MaxRows, 1>>
       /\ file.children[last.src.data[k].name].shape = <<MaxRows, 1, 1>>
       /\ file.children[last.src.data[j].name].shape = <<MaxRows>>

(***************************************************************************)
(* Claims about add_column (Spec).                                         *)
(***************************************************************************)
AddCalled == last.op = "add_column"

\* C14: after add_column(name, rows, cols, data) succeeds, get_column<T>(name)
\* with T the element type of data returns a column of shape (rows, cols)
\* whose element (i, j) is data[i*cols + j] for every row i and component j,
\* and the columns the table held before are unchanged.
C14_AddColumnStoresData ==
  (AddCalled /\ ~last.threw) =>
    LET got == get_column(table, last.name, last.type)
        rows == last.rows[1]
        cols == last.rows[2]
    IN /\ got.found
       /\ got.col.shape = <<rows, cols>>
       /\ \A i \in 0..(rows - 1), j \in 0..(cols - 1) :
            At(got.col, i, j) = last.col.data[i * cols + j + 1]
       /\ SubSeq(table.data, 1, Len(last.src.data)) = last.src.data
       /\ Len(table.data) = Len(last.src.data) + 1

\* a column of MaxRows rows and 2 components added to a table that held a
\* column already
C14_Witness ==
  /\ AddCalled /\ ~last.threw
  /\ last.src.data # <<>>
  /\ last.rows = <<MaxRows, 2>>
  /\ get_column(table, last.name, last.type).col.data = Ramp(2 * MaxRows)

\* C15: add_column with a row count that differs from the row count of the
\* columns the table holds throws and adds nothing: the table is what it was
\* before the call.
C15_AddColumnRejectsRowMismatch ==
  (AddCalled /\ last.src.data # <<>> /\ last.rows[1] # last.src.data[1].shape[1]) =>
    /\ last.threw
    /\ table = last.src

\* a one-row column offered to a table whose column has MaxRows rows
C15_Witness ==
  /\ AddCalled
  /\ last.src.data # <<>>
  /\ last.src.data[1].shape[1] = MaxRows
  /\ last.rows[1] = 1
  /\ last.threw

(***************************************************************************)
(* Claims about the source and the result of a select (SpecTwoTables).     *)
(***************************************************************************)
\* the step is a call on the table in use while a second table is held
CallBesideOther ==
  /\ ~OneTable
  /\ last'.op \in {"add_column", Generated, "set_experiment_ids", "set_identifiers"}

SelectedByMask == last.op = "select_mask" /\ ~last.threw /\ ~last.crashed

\* whether rows lists exactly the true positions of mask, ascending
IsAscendingTruePositions(rows, mask) ==
  /\ \A r \in 1..(Len(rows) - 1) : rows[r] < rows[r + 1]
  /\ Range(rows) = {i \in 0..(Len(mask) - 1) : mask[i + 1]}

C17_SelectMaskIsSelectIndices ==
  SelectedByMask =>
    /\ Len(last.mask) = get_row_count(last.src)
    /\ \E rows \in RowLists(get_row_count(last.src)) :
         /\ IsAscendingTruePositions(rows, last.mask)
         /\ \A identifier \in Idents :
              last.res = select(last.src, rows, identifier, 0)

C17_Witness ==
  /\ SelectedByMask
  /\ Len(last.src.data) = 2
  /\ last.mask = <<FALSE, TRUE>>
  /\ last.res.data[2].shape = <<1, 2>>
  /\ last.res.data[2].data = SubSeq(last.src.data[2].data, 3, 4)
  /\ last.src.data[2].data[3] # last.src.data[2].data[1]

(***************************************************************************)
(* C18: a table created empty holds exactly one metadata pair, the one its *)
(* constructor generated; a table created from a file holds exactly the    *)
(* experiment ids and identifiers of the file's attributes, and an empty   *)
(* list where the file has no attribute: no pair is generated for it.      *)
(***************************************************************************)
Created == last.op = "create"

\* the list a load takes from an attribute of the reserved group of f
StoredList(f, attr) ==
  IF GroupOpens(f, DEFAULT_REFL_GROUP) /\ attr.present THEN attr.value ELSE <<>>

C18_CreatedTablesHoldTheirMetadata ==
  /\ Created =>
       /\ table = last.res
       /\ table.experiment_ids = <<InitialMaxExperimentId>>
       /\ table.identifiers = <<last.identifier>>
       /\ table.data = <<>>
  /\ (Loaded /\ ~last.threw) =>
       /\ table = last.res
       /\ table.experiment_ids = StoredList(file, file.ids)
       /\ table.identifiers = StoredList(file, file.identifiers)

C18_Witness ==
  /\ Loaded /\ ~last.threw
  /\ Len(last.src.experiment_ids) = 2
  /\ last.src.identifiers = <<"uuid_b", "uuid_a">>
  /\ table.experiment_ids = <<>>
  /\ table.identifiers = <<>>
  /\ GroupOpens(file, DEFAULT_REFL_GROUP)
  /\ table.data # <<>>

(***************************************************************************)
(* C19: clone_filtered(rows) on a column of shape (n, d1, ..., dk) returns *)
(* a column of shape (len(rows), d1, ..., dk) whose r-th row, a block of   *)
(* d1*...*dk consecutive elements, is row rows[r] of the source, in the    *)
(* given order; its buffer is as long as the product of its shape, and the *)
(* source column is left as it was.                                        *)
(***************************************************************************)
Cloned == last.op = "clone_filtered"

C19_CloneFilteredCopiesRows ==
  Cloned =>
    LET source == last.src.data[1]
        clone == last.col
    IN /\ clone.shape = <<Len(last.rows)>> \o Tail(source.shape)
       /\ Len(clone.data) = Product(clone.shape)
       /\ \A r \in 1..Len(last.rows) :
            \A j \in 0..(RowStride(source) - 1) :
              clone.data[(r - 1) * RowStride(source) + j + 1]
                = source.data[last.rows[r] * RowStride(source) + j + 1]
       /\ clone.name = source.name
       /\ clone.type = source.type
       /\ table = last.src

C19_Witness ==
  /\ Cloned
  /\ last.src.data[1].shape = <<MaxRows, 1, 2>>
  /\ last.rows = <<1, 0>>
  /\ last.src.data[1].data[1] # last.src.data[1].data[3]
  /\ last.col.shape = <<2, 1, 2>>
  /\ last.col.data[1] = last.src.data[1].data[3]

(***************************************************************************)
(* C20: write creates the file when there is none, and                     *)
(* traverse_or_create_groups(parent, path) opens the components of the     *)
(* path that exist and creates the others: after a call that returns,      *)
(* every prefix of the path below parent is a group, the group returned is *)
(* the last of them and nothing else was created.  A second call with the  *)
(* same arguments returns the same group and creates nothing, and a path   *)
(* of '/' characters alone returns parent.  The call throws only when a    *)
(* component it would create has the name of a link that is not a group.   *)
(***************************************************************************)
Traversed == last.op \in {"traverse", "traverse_again"}

\* the names of a path: its maximal runs of characters other than '/'
NameStarts(path) ==
  {i \in DOMAIN path : path[i] # "/" /\ (i = 1 \/ path[i - 1] = "/")}
NameEnd(path, i) ==
  CHOOSE j \in i..Len(path) :
    /\ \A k \in i..j : path[k] # "/"
    /\ j = Len(path) \/ path[j + 1] = "/"
Components(path) ==
  [n \in 1..Cardinality(NameStarts(path)) |->
     LET i == Ascending(NameStarts(path))[n] IN SubSeq(path, i, NameEnd(path, i))]

\* the groups below parent that the path runs through
Prefixes(parent, path) ==
  {parent \o SubSeq(Components(path), 1, n) : n \in 1..Len(Components(path))}

C20_CreateOrOpen ==
  /\ (Traversed /\ ~last.threw) =>
       /\ Prefixes(last.parent, last.path) \subseteq file.groups
       /\ file.groups = last.before.groups \cup Prefixes(last.parent, last.path)
       /\ last.group = last.parent \o Components(last.path)
       /\ file = [last.before EXCEPT !.groups = file.groups]
  /\ (Traversed /\ last.threw) =>
       Prefixes(last.parent, last.path) \cap last.before.links # {}
  /\ last.op = "traverse_again" => ~last.threw /\ file = last.before
  /\ (Traversed /\ Components(last.path) = <<>>) =>
       ~last.threw /\ last.group = last.parent /\ file = last.before
  /\ (last.op = "write" /\ last.before.status = "missing") =>
       /\ file.status = "ok"
       /\ Prefixes(<<>>, DEFAULT_REFL_GROUP) \subseteq file.groups
       /\ ~last.threw
  /\ (last.op = "write" /\ last.before.status = "ok" /\ ~last.threw) =>
       /\ file.groups = last.before.groups \cup Prefixes(<<>>, DEFAULT_REFL_GROUP)
       /\ file.links = last.before.links

C20_Witness ==
  /\ last.op = "traverse_again"
  /\ last.path = <<"/", "/", "dials", "/", "/", "processing", "/">>
  /\ last.parent = <<>>
  /\ last.group = << <<"dials">>, <<"processing">> >>
  /\ written.done /\ written.fresh
  /\ << <<"dials">>, <<"processing">>, <<"group_0">> >> \in file.groups

(***************************************************************************)
(* C21: a column that write cannot store, because the dispatcher rejects   *)
(* its type tag or because writing its dataset raises, is skipped: write   *)
(* throws only when the file cannot be opened or created, every other      *)
(* column is stored under its own name, and nothing is stored under the    *)
(* name of the skipped one, wherever it stands in the column order.        *)
(***************************************************************************)
\* whether write cannot store column col in the group as it was before
Rejected(col) ==
  \/ col.type \notin SupportedTypes
  \/ /\ col.name \in DOMAIN last.before.children
     /\ last.before.children[col.name].kind # "dataset"

C21_WriteSkipsRejectedColumn ==
  WriteCalled =>
    /\ last.threw <=> last.before.status = "blocked"
    /\ ~last.threw =>
         \A k \in DOMAIN last.src.data :
           LET col == last.src.data[k]
           IN IF Rejected(col)
              THEN IF col.name \in DOMAIN last.before.children
                   THEN file.children[col.name] = last.before.children[col.name]
                   ELSE col.name \notin DOMAIN file.children
              ELSE /\ col.name \in DOMAIN file.children
                   /\ file.children[col.name].kind = "dataset"
                   /\ file.children[col.name].dtype = col.type
                   /\ file.children[col.name].data = col.data

C21_Witness ==
  /\ WriteDone
  /\ Len(last.src.data) = 3
  /\ last.src.data[1].type = "unregistered"
  /\ last.src.data[2].name = <<"xyz">>
  /\ last.src.data[2].type = "int"
  /\ last.before.status = "ok"
  /\ last.src.data[3].type = "int"
  /\ last.src.data[3].name \in DOMAIN file.children
  /\ last.src.data[1].name \notin DOMAIN file.children
  /\ file.children[<<"xyz">>].kind = "group"

(***************************************************************************)
(* C22: the row count of a table is 0 when it has no columns and otherwise *)
(* shape[0] of its first column, which for a loaded table is the first     *)
(* dataset of the enumeration that loads; the load keeps every dataset     *)
(* that loads with the shape of the file, whether or not its shape[0] is   *)
(* that row count.                                                         *)
(***************************************************************************)
C22_RowCountIsFirstColumns ==
  /\ (Loaded /\ ~last.threw) =>
       LET good == LoadableNames(file, last.order)
       IN /\ get_row_count(table) =
               IF good = <<>> THEN 0 ELSE file.children[good[1]].shape[1]
          /\ \A n \in Range(good) :
               \E k \in DOMAIN table.data :
                 /\ table.data[k].name = n
                 /\ table.data[k].shape = file.children[n].shape
  /\ SelectedByMask =>
       Len(last.mask) = IF last.src.data = <<>> THEN 0
                        ELSE last.src.data[1].shape[1]

\* a mask select on a loaded table whose second column has more rows than
\* its first
C22_Witness ==
  /\ SelectedByMask
  /\ Len(table.data) = 2
  /\ table.data[1].shape[1] < table.data[2].shape[1]
  /\ Len(last.mask) = table.data[1].shape[1]
  /\ \A k \in 1..2 : table.data[k].shape = file.children[table.data[k].name].shape

(***************************************************************************)
(* C23: get_datasets_in_group(file, group) returns exactly the datasets    *)
(* that are immediate children of the group, each once, as the path group  *)
(* + "/" + name and in the order of the enumeration; it returns no         *)
(* subgroup and no dataset that lies inside a subgroup, and a link whose   *)
(* object info cannot be read is passed over without ending the scan.      *)
(***************************************************************************)
Listed == last.op = "get_datasets_in_group" /\ ~last.threw

\* the names of the immediate children that are datasets, in visiting order
ImmediateDatasets ==
  SelectSeq(last.order, LAMBDA n : file.children[n].kind = "dataset")

C23_ListsImmediateDatasets ==
  (Listed /\ GroupOpens(file, DEFAULT_REFL_GROUP)) =>
    /\ Len(last.datasets) = Len(ImmediateDatasets)
    /\ \A k \in DOMAIN last.datasets :
         last.datasets[k] = DEFAULT_REFL_GROUP \o <<"/">> \o ImmediateDatasets[k]
    /\ \A n \in DOMAIN file.children :
         \A m \in DOMAIN file.children[n].inner :
           DEFAULT_REFL_GROUP \o <<"/">> \o n \o <<"/">> \o m \notin Range(last.datasets)

\* a scan that meets an unreadable link, then a subgroup holding a dataset,
\* then a dataset
C23_Witness ==
  /\ Listed
  /\ Len(last.order) = 3
  /\ file.children[last.order[1]].kind = "noinfo"
  /\ file.children[last.order[2]].kind = "group"
  /\ DOMAIN file.children[last.order[2]].inner # {}
  /\ file.children[last.order[3]].kind = "dataset"
  /\ last.datasets = <<DEFAULT_REFL_GROUP \o <<"/">> \o last.order[3]>>

(***************************************************************************)
(* C24: during get_datasets_in_group_recursive the visited-groups set      *)
(* keeps every group from being entered more than once, also when a link   *)
(* inside a group leads back to that group or to the group above it, so    *)
(* that the traversal ends.                                                *)
(***************************************************************************)
TraverseCalled == last.op = "get_datasets_in_group_recursive"

C24_GroupEnteredOnce ==
  TraverseCalled =>
    \A i, j \in DOMAIN last.entered :
      last.entered[i] = last.entered[j] => i = j

(***************************************************************************)
(* C25: the generate_new_attributes() call that follows                    *)
(* set_experiment_ids(ids), ids not empty, returns an id greater than      *)
(* every element of ids, so the id it appends is not yet in                *)
(* experiment_ids.                                                         *)
(***************************************************************************)
GenerateAfterSetIds ==
  /\ last.op = "set_experiment_ids"
  /\ last.rows # <<>>
  /\ ~last.crashed
  /\ last'.op = Generated

C25_GenerateAboveSetIds ==
  [][GenerateAfterSetIds
       => /\ \A x \in Range(last.rows) : last'.id > x
          /\ last'.id \notin Range(table.experiment_ids)]_vars

(***************************************************************************)
(* C26: on a table that was loaded from a file, built from given lists or  *)
(* returned by select, and whose experiment_ids holds no id twice,         *)
(* generate_new_attributes() returns an id that experiment_ids does not    *)
(* hold yet: the list stays free of duplicates however many pairs are      *)
(* generated.                                                              *)
(***************************************************************************)
NoDuplicates(ids) == \A i, j \in DOMAIN ids : ids[i] = ids[j] => i = j

C26_GeneratedIdIsNew ==
  [][(last'.op = Generated /\ NoDuplicates(table.experiment_ids))
       => /\ last'.id \notin Range(table.experiment_ids)
          /\ NoDuplicates(table'.experiment_ids)]_vars

(***************************************************************************)
(* C27: on a table created empty and changed only by                       *)
(* generate_new_attributes, add_column and select (the caller going on     *)
(* with the table select returned), experiment_ids and identifiers are of  *)
(* the same length in every state, and that length is at least 1; the     *)
(* same holds of every table select returns.                               *)
(***************************************************************************)
Paired(t) ==
  /\ Len(t.experiment_ids) = Len(t.identifiers)
  /\ Len(t.experiment_ids) >= 1

C27_MetadataListsPaired ==
  /\ Paired(table)
  /\ Selected => Paired(last.res)

\* a pair generated on a table select returned for a source with two pairs
C27_Witness ==
  /\ last.op = Generated
  /\ other # BlankTable
  /\ Len(other.experiment_ids) = 2
  /\ Len(table.experiment_ids) = 3
  /\ Len(table.identifiers) = 3
  /\ table.data # <<>>

(***************************************************************************)
(* C28: when write returns on a group that already holds the attributes    *)
(* of an earlier write, the attributes of the group are the experiment_ids *)
(* and the identifiers of the table just written.                          *)
(***************************************************************************)
C28_WriteReplacesMetadata ==
  WriteDone =>
    /\ file.ids = Attr(last.src.experiment_ids)
    /\ file.identifiers = Attr(last.src.identifiers)

(***************************************************************************)
(* C29: on a table loaded from a file, select<T>(col, p) and select(mask)  *)
(* hand to clone_filtered only row indices below shape[0] of every column  *)
(* of the table, so that no column is read out of range.                   *)
(***************************************************************************)
SelectCalledOnColumns ==
  /\ last.op \in {"select_pred", "select_mask"}
  /\ ~last.threw

C29_SelectStaysInRange ==
  SelectCalledOnColumns =>
    /\ ~last.crashed
    /\ \A k \in DOMAIN last.src.data :
         \A r \in DOMAIN last.rows : last.rows[r] < last.src.data[k].shape[1]

(***************************************************************************)
(* C30: for every panel p built from JSON, the panel built from            *)
(* p.to_json() has parallax correction exactly when p has it, whether the  *)
(* px_mm_strategy type p was built from is "SimplePxMmStrategy" or another *)
(* one.                                                                    *)
(***************************************************************************)
C30_RoundTripKeepsStrategy ==
  last.op = "rebuild" =>
    last.panel.parallax_correction_ = last.source.parallax_correction_

====
